---------------------------- MODULE Spec2Model ----------------------------
(***************************************************************************)
(* A model of pybot (src/pybot/pybot.py): the EventBus, the matcher chain, *)
(* the Listener, the Robot's dispatch loop and the ShellAdapter's          *)
(* transport loop.                                                         *)
(*                                                                         *)
(* Python values are modelled as follows.  A str is the sequence of its    *)
(* characters.  An optional value is a sequence of length 0 (None) or 1.   *)
(* A call in progress is a frame; the frames of publish and receive are    *)
(* kept as stacks of depth at most one (pub, rcv).  A callback supplied by *)
(* a bot script is named by a string and stands for a function object: two *)
(* callbacks are the same object iff they have the same name.              *)
(***************************************************************************)
EXTENDS Naturals, Sequences, FiniteSets, TLC

VARIABLES
    name,        \* Robot.name
    listeners,   \* Robot._listeners: the ordered list of Listener objects
    bus,         \* EventBus._listeners: defaultdict(list), keyed by event type
    runpc,       \* where ShellAdapter.run is
    nread,       \* lines the transport loop has read so far
    rcv,         \* the frame of the Robot.receive in progress, if any
    pub,         \* the frame of the EventBus.publish in progress, if any
    calls,       \* the subscribers the current (or last) publish has invoked
    invoked,     \* the handlers the current (or last) receive has invoked
    tracebacks,  \* tracebacks the current (or last) receive has printed
    out,         \* what the adapter did during the current operation
    events,      \* what run() did so far: emits, dispatches, close
    result       \* how the last finished call of the script ended

vars == <<name, listeners, bus, runpc, nread, rcv, pub, calls, invoked,
          tracebacks, out, events, result>>

---------------------------------------------------------------------------
(* Bounds of the model.                                                    *)

\* handlers subscribed to one event type
MaxSubs == 3
\* listeners registered on the robot
MaxListeners == 2
\* lines the transport loop reads before the input ends
MaxInputs == 2
\* characters of an enumerated message text
MaxTextLen == 3

---------------------------------------------------------------------------
(* Python values.                                                          *)

None == <<>>

Some(x) == <<x>>

IsNone(o) == o = <<>>

Val(o) == o[1]

\* how a call ended: it returned a value, or an exception left it
Return(v) == [kind |-> "return", value |-> v]

Raise(e) == [kind |-> "raise", error |-> e]

RECURSIVE IndexOf(_, _, _)
\* the least i >= from with s[i] = x, or 0: list.index, 1-based
IndexOf(s, x, from) ==
    IF from > Len(s) THEN 0
    ELSE IF s[from] = x THEN from
    ELSE IndexOf(s, x, from + 1)

Contains(s, x) == IndexOf(s, x, 1) # 0

\* s without its i-th element
RemoveAt(s, i) == SubSeq(s, 1, i - 1) \o SubSeq(s, i + 1, Len(s))

Range(s) == {s[i] : i \in 1..Len(s)}

---------------------------------------------------------------------------
(* Callbacks of the bot scripts: the functions given to Robot.on or to     *)
(* EventBus.subscribe.  What a callback does when called is the script's   *)
(* choice; these are the behaviours the model draws from.                  *)

\* subscribers that return normally
QuietSubscribers == {"f1", "f2"}

\* subscribers that raise
RaisingSubscribers == {"fr"}

Subscribers == QuietSubscribers \cup RaisingSubscribers

EventTypes == {"connected", "disconnected"}

EventData == {None, Some("d")}

---------------------------------------------------------------------------
(* EventBus.                                                               *)

\* defaultdict.__getitem__: the list under key type, created empty if missing
BusTouch(b, type) ==
    IF type \in DOMAIN b THEN b ELSE b @@ (type :> <<>>)

BusList(b, type) == BusTouch(b, type)[type]

\* a subscribe that does not look for f in the list before appending it
subscribeAlways(b, type, f) ==
    [BusTouch(b, type) EXCEPT ![type] = Append(@, f)]

\* a subscribe that puts a new handler at the head of the list
subscribeFirst(b, type, f) ==
    LET b1 == BusTouch(b, type)
    IN  IF ~Contains(b1[type], f)
        THEN [b1 EXCEPT ![type] = <<f>> \o @]
        ELSE b1

\* EventBus.subscribe: append f unless the list already holds it
subscribe(b, type, f) ==
    LET b1 == BusTouch(b, type)
    IN  IF ~Contains(b1[type], f)
        THEN [b1 EXCEPT ![type] = Append(@, f)]
        ELSE b1

\* an unsubscribe that ignores a handler the list does not hold
unsubscribeNeverRaises(b, type, f) == FALSE

\* list.remove raises ValueError when the list does not hold f
unsubscribeRaises(b, type, f) == ~Contains(BusList(b, type), f)

\* an unsubscribe that drops the last handler of the list, whichever it is
unsubscribeLast(b, type, f) ==
    LET b1 == BusTouch(b, type)
    IN  IF ~Contains(b1[type], f) THEN b1
        ELSE [b1 EXCEPT ![type] = SubSeq(@, 1, Len(@) - 1)]

\* EventBus.unsubscribe: list.remove drops the first occurrence of f
unsubscribe(b, type, f) ==
    LET b1 == BusTouch(b, type)
    IN  IF unsubscribeRaises(b, type, f) THEN b1
        ELSE [b1 EXCEPT ![type] = RemoveAt(@, IndexOf(@, f, 1))]


---------------------------------------------------------------------------
(* Strings.                                                                *)

\* str.lower on one character, for the letters the model's texts use
LowerChar(c) ==
    CASE c = "P" -> "p"
      [] c = "Y" -> "y"
      [] c = "B" -> "b"
      [] c = "O" -> "o"
      [] c = "T" -> "t"
      [] c = "S" -> "s"
      [] OTHER -> c

lower(s) == [i \in 1..Len(s) |-> LowerChar(s[i])]

RECURSIVE split(_, _)
\* str.split(sep) for a one-character sep: the pieces between the seps
split(s, sep) ==
    LET i == IndexOf(s, sep, 1)
    IN  IF i = 0 THEN <<s>>
        ELSE <<SubSeq(s, 1, i - 1)>> \o split(SubSeq(s, i + 1, Len(s)), sep)

RECURSIVE lstrip(_, _)
\* str.lstrip(chars): drop leading characters that are in chars
lstrip(s, chars) ==
    IF Len(s) > 0 /\ s[1] \in chars THEN lstrip(Tail(s), chars) ELSE s

RECURSIVE rstrip(_, _)
\* str.rstrip(chars): drop trailing characters that are in chars
rstrip(s, chars) ==
    IF Len(s) > 0 /\ s[Len(s)] \in chars
    THEN rstrip(SubSeq(s, 1, Len(s) - 1), chars)
    ELSE s

RECURSIVE searchFrom(_, _, _)
\* re.search of a literal pattern p in s, scanning start positions from
\* pos (0-based) upwards: the first match, as its span, or None
searchFrom(p, s, pos) ==
    IF pos + Len(p) > Len(s) THEN None
    ELSE IF SubSeq(s, pos + 1, pos + Len(p)) = p
         THEN Some([start |-> pos, end |-> pos + Len(p)])
         ELSE searchFrom(p, s, pos + 1)

---------------------------------------------------------------------------
(* Messages.                                                               *)

\* User(id, name); Message(user, room, text, id=None)
User(id, uname) == [id |-> id, name |-> uname]

Message(user, room, text) == [user |-> user, room |-> room, text |-> text]

\* the user the shell adapter builds: PYBOT_SHELL_USER_ID unset, name 'Shell'
ShellUser == User(None, <<"S", "h", "e", "l", "l">>)

\* the message the shell adapter builds from a line of input
ShellMessage(line) == Message(Some(ShellUser), "shell", Some(line))

---------------------------------------------------------------------------
(* Matchers.  A matcher is a record: a RegexMatcher of a literal pattern,  *)
(* a DirectMessageMatcher around another matcher, or a matcher of the      *)
(* script's own given to Robot.listen (one that matches every message, or  *)
(* one whose match raises).                                                *)

\* RegexMatcher.__init__: patterns are literals, so re.compile keeps them
RegexMatcher(pattern) == [kind |-> "regex", pattern |-> pattern]

\* DirectMessageMatcher.__init__: the name is lowercased once
DirectMessageMatcher(wrapped, botname) ==
    [kind |-> "direct", wrapped |-> wrapped, name |-> lower(botname)]

AlwaysMatcher == [kind |-> "always"]

RaisingMatcher == [kind |-> "raising"]

\* a match that uses re.match: the pattern is looked for at position 0 only
RegexMatchAnchored(m, message) ==
    IF ~IsNone(message.text) /\ Val(message.text) # <<>>
    THEN IF SubSeq(Val(message.text), 1, Len(m.pattern)) = m.pattern
         THEN Some([start |-> 0, end |-> Len(m.pattern)])
         ELSE None
    ELSE None

\* RegexMatcher.match: None unless the text is a non-empty str
RegexMatch(m, message) ==
    IF ~IsNone(message.text) /\ Val(message.text) # <<>>
    THEN searchFrom(m.pattern, Val(message.text), 0)
    ELSE None

\* the characters DirectMessageMatcher strips from the end of the token
AddressSeparators == {" ", ":", "-", "="}

\* DirectMessageMatcher.match up to the comparison: whether the first token
\* of the text names the bot
Addressed(m, message) ==
    IF IsNone(message.text) \/ Val(message.text) = <<>> THEN FALSE
    ELSE LET tokens == split(lower(Val(message.text)), " ")
         IN  IF tokens = <<>> THEN FALSE
             ELSE LET first_token ==
                          rstrip(lstrip(tokens[1], {" "}), AddressSeparators)
                  IN  first_token = m.name

\* a delegation that cuts the first token and the space after it off the
\* text before handing the message to the wrapped matcher
DirectDelegateStripped(message) ==
    LET text == Val(message.text)
        i == IndexOf(text, " ", 1)
    IN  [message EXCEPT !.text =
            Some(IF i = 0 THEN <<>> ELSE SubSeq(text, i + 1, Len(text)))]

\* the message DirectMessageMatcher hands to the matcher it wraps
DirectDelegate(message) == message

RECURSIVE match(_, _)
\* Matcher.match: how the call ends, and the match it returns
match(m, message) ==
    CASE m.kind = "regex" -> Return(RegexMatch(m, message))
      [] m.kind = "direct" ->
            IF Addressed(m, message)
            THEN match(m.wrapped, DirectDelegate(message))
            ELSE Return(None)
      [] m.kind = "always" -> Return(Some([start |-> 0, end |-> 0]))
      [] m.kind = "raising" -> Raise("MatcherError")

---------------------------------------------------------------------------
(* Listeners and responses.                                                *)

\* handlers that return normally without doing anything
QuietHandlers == {"h1", "h2"}

\* handlers that raise
RaisingHandlers == {"hr"}

\* handlers that call response.reply("hi")
ReplyingHandlers == {"hreply"}

\* handlers that call response.send("hi")
SendingHandlers == {"hsend"}

\* handlers that call response.emote("hi")
EmotingHandlers == {"hemote"}

\* handlers that call response.topic("hi")
TopicHandlers == {"htopic"}

\* handlers that use their response
ResponseHandlers ==
    ReplyingHandlers \cup SendingHandlers \cup EmotingHandlers
        \cup TopicHandlers

\* handlers that call robot.hear("hi")(h2), registering a new listener
AddingHandlers == {"hadd"}

Handlers ==
    QuietHandlers \cup RaisingHandlers \cup ResponseHandlers
        \cup AddingHandlers

\* Listener.__init__
Listener(matcher, func) == [matcher |-> matcher, func |-> func]

\* Response.__init__
Response(message, m) == [message |-> message, match |-> m]

\* the adapter classes
AdapterClasses == {"Adapter", "ShellAdapter"}

\* Robot._load_adapter: the robot's adapter is a ShellAdapter
RobotAdapter == "ShellAdapter"

\* the operations of an adapter that take (message, text)
AdapterOps == {"send", "emote", "reply", "topic", "play"}

\* one entry of the log of what an adapter did: a call of one of its
\* operations, or a line printed ("print")
AdapterDid(op, cls, message, text) ==
    [op |-> op, cls |-> cls, message |-> message, text |-> text]

\* Adapter.send is pass; ShellAdapter.send is print(text)
AdapterSend(cls, o, message, text) ==
    LET called == Append(o, AdapterDid("send", cls, message, text))
    IN  IF cls = "ShellAdapter"
        THEN Append(called, AdapterDid("print", cls, message, text))
        ELSE called

\* Adapter.emote: self.send(message, text); ShellAdapter.emote:
\* self.send(message, '* {}'.format(text))
AdapterEmote(cls, o, message, text) ==
    LET called == Append(o, AdapterDid("emote", cls, message, text))
    IN  IF cls = "ShellAdapter"
        THEN AdapterSend(cls, called, message, <<"*", " ">> \o text)
        ELSE AdapterSend(cls, called, message, text)

\* Adapter.reply is pass; ShellAdapter.reply:
\* self.send(message, '{}: {}'.format(message.user.name, text))
AdapterReply(cls, o, message, text) ==
    LET called == Append(o, AdapterDid("reply", cls, message, text))
    IN  IF cls = "ShellAdapter"
        THEN AdapterSend(cls, called, message,
                         Val(message.user).name \o <<":", " ">> \o text)
        ELSE called

\* Adapter.topic is pass, and ShellAdapter inherits it
AdapterTopic(cls, o, message, text) ==
    Append(o, AdapterDid("topic", cls, message, text))

\* Adapter.play is pass, and ShellAdapter inherits it
AdapterPlay(cls, o, message, text) ==
    Append(o, AdapterDid("play", cls, message, text))

\* the call adapter.<op>(message, text) on an adapter of class cls
AdapterCall(cls, op, o, message, text) ==
    CASE op = "send" -> AdapterSend(cls, o, message, text)
      [] op = "emote" -> AdapterEmote(cls, o, message, text)
      [] op = "reply" -> AdapterReply(cls, o, message, text)
      [] op = "topic" -> AdapterTopic(cls, o, message, text)
      [] op = "play" -> AdapterPlay(cls, o, message, text)

\* a Response.reply that hands the text to adapter.send
ResponseReplyBySend(o, response, text) ==
    AdapterSend(RobotAdapter, o, response.message, text)

\* Response.reply: adapter.reply anchored to the response's message
ResponseReply(o, response, text) ==
    AdapterReply(RobotAdapter, o, response.message, text)

\* Response.send
ResponseSend(o, response, text) ==
    AdapterSend(RobotAdapter, o, response.message, text)

\* Response.emote
ResponseEmote(o, response, text) ==
    AdapterEmote(RobotAdapter, o, response.message, text)

\* Response.topic
ResponseTopic(o, response, text) ==
    AdapterTopic(RobotAdapter, o, response.message, text)

\* what calling the handler with the response makes the adapter do
HandlerPrints(func, response, o) ==
    CASE func \in ReplyingHandlers -> ResponseReply(o, response, <<"h", "i">>)
      [] func \in SendingHandlers -> ResponseSend(o, response, <<"h", "i">>)
      [] func \in EmotingHandlers -> ResponseEmote(o, response, <<"h", "i">>)
      [] func \in TopicHandlers -> ResponseTopic(o, response, <<"h", "i">>)
      [] OTHER -> o

\* a __call__ that does not return early when the matcher found nothing: it
\* calls the handler whatever the matcher returned
ListenerCallUnmatched(l, message, o) ==
    LET m == match(l.matcher, message)
    IN  IF m.kind = "raise"
        THEN [end |-> m, called |-> <<>>, out |-> o]
        ELSE LET response == Response(message,
                                 IF IsNone(m.value) THEN None ELSE Val(m.value))
             IN  [end |-> IF l.func \in RaisingHandlers
                          THEN Raise("HandlerError")
                          ELSE Return(TRUE),
                  called |-> <<response>>,
                  out |-> HandlerPrints(l.func, response, o)]

\* Listener.__call__: how the call ends (it returns False or True, or an
\* exception of the matcher or of the handler leaves it), the responses the
\* handler was called with, and the output after it
ListenerCall(l, message, o) ==
    LET m == match(l.matcher, message)
    IN  IF m.kind = "raise"
        THEN [end |-> m, called |-> <<>>, out |-> o]
        ELSE IF IsNone(m.value)
        THEN [end |-> Return(FALSE), called |-> <<>>, out |-> o]
        ELSE LET response == Response(message, Val(m.value))
             IN  [end |-> IF l.func \in RaisingHandlers
                          THEN Raise("HandlerError")
                          ELSE Return(TRUE),
                  called |-> <<response>>,
                  out |-> HandlerPrints(l.func, response, o)]


---------------------------------------------------------------------------
(* The state after Robot() is constructed, and the calls of the script.    *)
(* result is None while a call of the script is in progress.               *)

\* Robot.__init__ with the default name, and nothing called yet
DefaultName == <<"P", "y", "b", "o", "t">>

InitWith(botname) ==
    /\ name = botname
    /\ listeners = <<>>
    /\ bus = <<>>
    /\ runpc = "idle"
    /\ nread = 0
    /\ rcv = <<>>
    /\ pub = <<>>
    /\ calls = <<>>
    /\ invoked = <<>>
    /\ tracebacks = 0
    /\ out = <<>>
    /\ events = <<>>
    /\ result = None

Init == InitWith(DefaultName)

\* the script is between two calls: no call of it is in progress
Idle == runpc = "idle" /\ rcv = <<>> /\ pub = <<>>

\* EventBus.subscribe(type, f), called by the script
Subscribe(type, f) ==
    /\ Idle
    /\ Len(BusList(bus, type)) < MaxSubs \/ Contains(BusList(bus, type), f)
    /\ bus' = subscribe(bus, type, f)
    /\ result' = Some(Return(None))
    /\ UNCHANGED <<name, listeners, runpc, nread, rcv, pub, calls, invoked,
                   tracebacks, out, events>>

\* Robot.on(type)(f): subscribe f and return it
On(type, f) ==
    /\ Idle
    /\ Len(BusList(bus, type)) < MaxSubs \/ Contains(BusList(bus, type), f)
    /\ bus' = subscribe(bus, type, f)
    /\ result' = Some(Return(Some(f)))
    /\ UNCHANGED <<name, listeners, runpc, nread, rcv, pub, calls, invoked,
                   tracebacks, out, events>>

\* EventBus.unsubscribe(type, f), called by the script
Unsubscribe(type, f) ==
    /\ Idle
    /\ bus' = unsubscribe(bus, type, f)
    /\ result' = IF unsubscribeRaises(bus, type, f)
                 THEN Some(Raise("ValueError"))
                 ELSE Some(Return(None))
    /\ UNCHANGED <<name, listeners, runpc, nread, rcv, pub, calls, invoked,
                   tracebacks, out, events>>

\* the frame of EventBus.publish: the list iterator has yielded i handlers
PublishFrame(type, data) == [type |-> type, data |-> data, i |-> 0]

\* Robot.emit(type, data), called by the script: EventBus.publish begins
Emit(type, data) ==
    /\ Idle
    /\ bus' = BusTouch(bus, type)
    /\ pub' = <<PublishFrame(type, data)>>
    /\ calls' = <<>>
    /\ result' = None
    /\ UNCHANGED <<name, listeners, runpc, nread, rcv, invoked, tracebacks,
                   out, events>>

\* subscribers that call unsubscribe(type, themselves) for the type being
\* published, and return
SelfUnsubscribers == {"fu"}

\* calling subscriber h during the publish of type: the bus after it
SubscriberEffect(h, type, b) ==
    IF h \in SelfUnsubscribers THEN unsubscribe(b, type, h) ELSE b

\* calling subscriber h with data: how the call ends
SubscriberCall(h, data) ==
    IF h \in RaisingSubscribers THEN Raise("SubscriberError")
    ELSE Return(None)

\* a publish that catches what a subscriber raises and goes on
PublishIsolates == TRUE

\* EventBus.publish calls its listeners outside any try block
PublishCatches == FALSE

\* a receive that lets a listener's exception through
ReceiveLetsThrough == FALSE

\* Robot.receive calls each listener inside try/except
ReceiveCatches == TRUE

\* one turn of the loop of EventBus.publish: the next handler is called
PublishStep ==
    /\ pub # <<>>
    /\ LET f == pub[1]
           hs == bus[f.type]
       IN  /\ f.i < Len(hs)
           /\ LET h == hs[f.i + 1]
                  end == SubscriberCall(h, f.data)
              IN  /\ calls' = Append(calls,
                          [type |-> f.type, handler |-> h, data |-> f.data])
                  /\ bus' = SubscriberEffect(h, f.type, bus)
                  /\ IF end.kind = "raise" /\ ~PublishCatches
                     THEN /\ pub' = <<>>
                          /\ result' = Some(end)
                          /\ runpc' = IF runpc = "idle" THEN "idle"
                                      ELSE "raised"
                     ELSE /\ pub' = <<[f EXCEPT !.i = f.i + 1]>>
                          /\ UNCHANGED <<result, runpc>>
    /\ UNCHANGED <<name, listeners, nread, rcv, invoked, tracebacks,
                   out, events>>

\* the loop of EventBus.publish is exhausted and publish returns; inside
\* ShellAdapter.run, run goes on to its loop or to Robot.shutdown
PublishReturn ==
    /\ pub # <<>>
    /\ pub[1].i >= Len(bus[pub[1].type])
    /\ pub' = <<>>
    /\ CASE runpc = "connected" ->
                /\ runpc' = "loop"
                /\ UNCHANGED <<events, result>>
         [] runpc = "disconnected" ->
                /\ runpc' = "returned"
                /\ events' = Append(events, "close")
                /\ result' = Some(Return(None))
         [] OTHER ->
                /\ result' = Some(Return(None))
                /\ UNCHANGED <<runpc, events>>
    /\ UNCHANGED <<name, listeners, bus, nread, rcv, calls, invoked,
                   tracebacks, out>>

\* an _add_listener that puts the new listener at the head of the list
add_listenerFirst(ls, matcher, func) == <<Listener(matcher, func)>> \o ls

\* Robot._add_listener
add_listener(ls, matcher, func) == Append(ls, Listener(matcher, func))

\* Robot.respond(pattern)(f): the wrapper has no return statement
Respond(pattern, f) ==
    /\ Idle
    /\ Len(listeners) < MaxListeners
    /\ listeners' = add_listener(listeners,
                        DirectMessageMatcher(RegexMatcher(pattern), name), f)
    /\ result' = Some(Return(None))
    /\ UNCHANGED <<name, bus, runpc, nread, rcv, pub, calls, invoked,
                   tracebacks, out, events>>

\* Robot.hear(pattern)(f)
Hear(pattern, f) ==
    /\ Idle
    /\ Len(listeners) < MaxListeners
    /\ listeners' = add_listener(listeners, RegexMatcher(pattern), f)
    /\ result' = Some(Return(Some(f)))
    /\ UNCHANGED <<name, bus, runpc, nread, rcv, pub, calls, invoked,
                   tracebacks, out, events>>

\* Robot.listen(matcher)(f)
Listen(matcher, f) ==
    /\ Idle
    /\ Len(listeners) < MaxListeners
    /\ listeners' = add_listener(listeners, matcher, f)
    /\ result' = Some(Return(Some(f)))
    /\ UNCHANGED <<name, bus, runpc, nread, rcv, pub, calls, invoked,
                   tracebacks, out, events>>

\* calling handler func: the listeners after it
HandlerEffect(func, ls) ==
    IF func \in AddingHandlers
    THEN add_listener(ls, RegexMatcher(<<"h", "i">>), "h2")
    ELSE ls

\* the frame of Robot.receive: the list iterator has yielded i listeners
ReceiveFrame(message) == [message |-> message, i |-> 0]

\* Robot.receive(message), called by the script
Receive(message) ==
    /\ Idle
    /\ rcv' = <<ReceiveFrame(message)>>
    /\ invoked' = <<>>
    /\ tracebacks' = 0
    /\ out' = <<>>
    /\ result' = None
    /\ UNCHANGED <<name, listeners, bus, runpc, nread, pub, calls, events>>

\* one turn of the loop of Robot.receive: the next listener is called
ReceiveStep ==
    /\ rcv # <<>>
    /\ LET f == rcv[1]
       IN  /\ f.i < Len(listeners)
           /\ LET c == ListenerCall(listeners[f.i + 1], f.message, out)
                  after == IF c.called = <<>> THEN listeners
                           ELSE HandlerEffect(listeners[f.i + 1].func,
                                              listeners)
              IN  /\ Len(after) <= MaxListeners
                  /\ listeners' = after
                  /\ invoked' = invoked \o
                          [k \in 1..Len(c.called) |->
                              [listener |-> f.i + 1, response |-> c.called[k]]]
                  /\ out' = c.out
                  /\ IF c.end.kind = "raise" /\ ~ReceiveCatches
                     THEN /\ rcv' = <<>>
                          /\ result' = Some(c.end)
                          /\ runpc' = IF runpc = "idle" THEN "idle"
                                      ELSE "raised"
                          /\ UNCHANGED tracebacks
                     ELSE /\ rcv' = <<[f EXCEPT !.i = f.i + 1]>>
                          /\ tracebacks' = IF c.end.kind = "raise"
                                           THEN tracebacks + 1
                                           ELSE tracebacks
                          /\ UNCHANGED <<result, runpc>>
    /\ UNCHANGED <<name, bus, nread, pub, calls, events>>

\* the loop of Robot.receive is exhausted and receive returns; inside
\* ShellAdapter.run, run goes back to read the next line
ReceiveReturn ==
    /\ rcv # <<>>
    /\ rcv[1].i >= Len(listeners)
    /\ rcv' = <<>>
    /\ IF runpc = "dispatch"
       THEN runpc' = "loop" /\ UNCHANGED result
       ELSE result' = Some(Return(None)) /\ UNCHANGED runpc
    /\ UNCHANGED <<name, listeners, bus, nread, pub, calls, invoked,
                   tracebacks, out, events>>

\* the line that ends the transport loop
Quit == <<"q", "u", "i", "t">>

\* a loop for which no line is the sentinel
NeverSentinel(text) == FALSE

\* ShellAdapter.run: if text == 'quit'
IsSentinel(text) == text = Quit

\* Robot.run(): ShellAdapter.run up to its emit('connected')
Run ==
    /\ Idle
    /\ runpc' = "connected"
    /\ nread' = 0
    /\ events' = <<"connected">>
    /\ bus' = BusTouch(bus, "connected")
    /\ pub' = <<PublishFrame("connected", None)>>
    /\ calls' = <<>>
    /\ result' = None
    /\ UNCHANGED <<name, listeners, rcv, invoked, tracebacks, out>>

\* input() returns a line other than 'quit': it is wrapped in a Message and
\* handed to Adapter.receive, which calls Robot.receive
ReadLine(line) ==
    /\ runpc = "loop"
    /\ nread < MaxInputs
    /\ ~IsSentinel(line)
    /\ nread' = nread + 1
    /\ runpc' = "dispatch"
    /\ events' = Append(events, "receive")
    /\ rcv' = <<ReceiveFrame(ShellMessage(line))>>
    /\ invoked' = <<>>
    /\ tracebacks' = 0
    /\ out' = <<>>
    /\ UNCHANGED <<name, listeners, bus, pub, calls, result>>

\* a loop that on end of input returns from run at once, without the emit
LeaveLoopSilentEOF(why) ==
    IF why = "eof"
    THEN /\ runpc = "loop"
         /\ runpc' = "returned"
         /\ events' = events \o <<why, "close">>
         /\ result' = Some(Return(None))
         /\ UNCHANGED <<name, listeners, bus, nread, rcv, pub, calls, invoked,
                        tracebacks, out>>
    ELSE /\ runpc = "loop"
         /\ runpc' = "disconnected"
         /\ events' = events \o <<why, "disconnected">>
         /\ bus' = BusTouch(bus, "disconnected")
         /\ pub' = <<PublishFrame("disconnected", None)>>
         /\ calls' = <<>>
         /\ UNCHANGED <<name, listeners, nread, rcv, invoked, tracebacks, out,
                        result>>

\* the loop is left: run goes on to its emit('disconnected')
LeaveLoop(why) ==
    /\ runpc = "loop"
    /\ runpc' = "disconnected"
    /\ events' = events \o <<why, "disconnected">>
    /\ bus' = BusTouch(bus, "disconnected")
    /\ pub' = <<PublishFrame("disconnected", None)>>
    /\ calls' = <<>>
    /\ UNCHANGED <<name, listeners, nread, rcv, invoked, tracebacks, out,
                   result>>

\* input() returns 'quit'
ReadQuit == LeaveLoop("quit")

\* input() raises EOFError
ReadEOF == LeaveLoop("eof")

\* adapter.<op>(message, text), called by the script on an adapter of class
\* cls that it built itself
CallAdapter(cls, op, message, text) ==
    /\ Idle
    /\ out' = AdapterCall(cls, op, <<>>, message, text)
    /\ result' = Some(Return(None))
    /\ UNCHANGED <<name, listeners, bus, runpc, nread, rcv, pub, calls,
                   invoked, tracebacks, events>>


---------------------------------------------------------------------------
(* The texts and patterns the specifications draw from.                    *)

Hi == <<"h", "i">>

Status == <<"s", "t", "a", "t", "u", "s">>

HiThere == <<"h", "i", " ", "t", "h", "e", "r", "e">>

Bye == <<"b", "y", "e">>

PybotStatus ==
    <<"p", "y", "b", "o", "t", ":", " ", "s", "t", "a", "t", "u", "s">>

UpperPybotStatus ==
    <<"P", "Y", "B", "O", "T", " ", "s", "t", "a", "t", "u", "s">>

HelloPybot == <<"h", "e", "l", "l", "o", " ", "p", "y", "b", "o", "t">>

\* every string over alphabet of at most n characters
Strings(alphabet, n) == UNION {[1..k -> alphabet] : k \in 0..n}

---------------------------------------------------------------------------
(* Spec: a bot script registers subscribers and listeners on a Robot and   *)
(* then calls Robot.run(), which reads lines until 'quit' or end of input. *)

SpecLines == {HiThere, PybotStatus, Status, Bye}

Register ==
    \/ \E type \in EventTypes, f \in {"f1", "fr"} : On(type, f)
    \/ \E f \in {"h1", "hr"} : Respond(Status, f)
    \/ \E f \in {"h1", "hr", "hreply"} : Hear(Hi, f)
    \/ \E m \in {AlwaysMatcher, RaisingMatcher} : Listen(m, "h2")

Transport ==
    \/ Run
    \/ \E line \in SpecLines \cup {Quit} : ReadLine(line)
    \/ ReadQuit
    \/ ReadEOF

Next ==
    \/ Register
    \/ Transport
    \/ PublishStep
    \/ PublishReturn
    \/ ReceiveStep
    \/ ReceiveReturn

Spec == Init /\ [][Next]_vars

\* the lines of the input stream under SpecFair
FairLines == {Hi, Bye}

\* the steps of a run() that has been entered: the code between two of them
\* runs without waiting, and on a finite input stream input() returns a line
\* or raises EOFError
RunStep ==
    \/ \E line \in FairLines \cup {Quit} : ReadLine(line)
    \/ ReadQuit
    \/ ReadEOF
    \/ PublishStep
    \/ PublishReturn
    \/ ReceiveStep
    \/ ReceiveReturn

NextFair ==
    \/ Register
    \/ Run
    \/ RunStep

\* the script and run() as in Spec, with a run() that keeps taking its next
\* step
SpecFair == Init /\ [][NextFair]_vars /\ WF_vars(RunStep)

---------------------------------------------------------------------------
(* SpecBus: a caller drives the EventBus of a Robot with any sequence of   *)
(* subscribe, unsubscribe and emit (publish) calls.                        *)

NextBus ==
    \/ \E type \in EventTypes, f \in Subscribers : Subscribe(type, f)
    \/ \E type \in EventTypes, f \in Subscribers : Unsubscribe(type, f)
    \/ \E type \in EventTypes, data \in EventData : Emit(type, data)
    \/ PublishStep
    \/ PublishReturn

SpecBus == Init /\ [][NextBus]_vars


---------------------------------------------------------------------------
(* Properties of the EventBus, checked under SpecBus.                      *)

\* no element of s occurs twice
NoDuplicates(s) == \A i, j \in 1..Len(s) : s[i] = s[j] => i = j

\* the handlers a publish has invoked, in the order of the calls
CalledHandlers == [k \in 1..Len(calls) |-> calls[k].handler]

\* how often h was called
TimesCalled(h) == Cardinality({k \in 1..Len(calls) : calls[k].handler = h})

\* s without the elements equal to x
Without(s, x) == SelectSeq(s, LAMBDA y : y # x)

\* a publish returns to its caller in this step
PublishReturns == pub # <<>> /\ pub' = <<>> /\ pub[1].i >= Len(bus[pub[1].type])

\* C4: no handler is ever twice in the list of an event type; subscribing a
\* handler the type already has changes no list; and when a publish returns,
\* every handler of its type has been called exactly once.
C4_SubscribeIsIdempotent ==
    /\ [](\A type \in EventTypes : NoDuplicates(BusList(bus, type)))
    /\ [][\A type \in EventTypes, f \in Subscribers :
            Subscribe(type, f) /\ Contains(BusList(bus, type), f)
                => \A t \in EventTypes : BusList(bus', t) = BusList(bus, t)]_vars
    /\ [][PublishReturns
            => \A h \in Range(bus[pub[1].type]) : TimesCalled(h) = 1]_vars

\* C4's case: a publish of a type with two handlers has returned after
\* calling each of them once
C4_Witness ==
    /\ result = Some(Return(None))
    /\ pub = <<>>
    /\ BusList(bus, "connected") = <<"f1", "f2">>
    /\ CalledHandlers = <<"f1", "f2">>

\* C5: a publish that returns has called exactly the handlers of its type,
\* each once, in the order of their subscription (a new handler is appended
\* at the end of its type's list), each with the published data, and no
\* handler of another type; on a type without handlers it calls nothing and
\* returns normally.
C5_PublishCallsAllInOrder ==
    /\ [][PublishReturns
            => /\ calls = [k \in 1..Len(bus[pub[1].type]) |->
                              [type |-> pub[1].type,
                               handler |-> bus[pub[1].type][k],
                               data |-> pub[1].data]]
               /\ result' = Some(Return(None))]_vars
    /\ [][\A type \in EventTypes, f \in Subscribers :
            Subscribe(type, f) /\ ~Contains(BusList(bus, type), f)
                => BusList(bus', type) = Append(BusList(bus, type), f)]_vars
    /\ [][\A type \in EventTypes, data \in EventData :
            Emit(type, data) /\ BusList(bus, type) = <<>>
                => /\ pub' # <<>>
                   /\ type \in DOMAIN bus'
                   /\ pub'[1].i >= Len(bus'[type])
                   /\ calls' = <<>>]_vars


\* C5's case: a publish with data has returned after calling two handlers
\* in the order of their subscription, while the other type has a handler
\* that was not called
C5_Witness ==
    /\ pub = <<>>
    /\ result = Some(Return(None))
    /\ BusList(bus, "disconnected") = <<"f2", "f1">>
    /\ BusList(bus, "connected") = <<"f1">>
    /\ calls = <<[type |-> "disconnected", handler |-> "f2", data |-> Some("d")],
                 [type |-> "disconnected", handler |-> "f1", data |-> Some("d")]>>


\* C6: unsubscribing a handler that its type's list does not hold (it was
\* never subscribed, is subscribed to the other type only, or was already
\* unsubscribed) ends with an error and leaves the handlers of every type,
\* and their order, as they were.
C6_UnsubscribeUnknownFails ==
    [][\A type \in EventTypes, f \in Subscribers :
          Unsubscribe(type, f) /\ f \notin Range(BusList(bus, type))
              => /\ result' = Some(Raise("ValueError"))
                 /\ \A t \in EventTypes : BusList(bus', t) = BusList(bus, t)]_vars

\* C6's case: an unsubscribe has failed while the other type holds handlers
C6_Witness ==
    /\ result = Some(Raise("ValueError"))
    /\ BusList(bus, "connected") = <<>>
    /\ BusList(bus, "disconnected") = <<"f1", "f2">>

\* C7: unsubscribing a handler its type holds returns normally and takes it
\* out of that type's list, keeping the other handlers in their order and
\* the other type's list as it was; a handler comes into a list only by a
\* subscribe; and a publish calls only handlers that its type's list holds.
\* So from the unsubscribe until it is subscribed again no publish of the
\* type calls the handler.
C7_UnsubscribedIsNotCalled ==
    /\ [][\A type \in EventTypes, f \in Subscribers :
            Unsubscribe(type, f) /\ f \in Range(BusList(bus, type))
                => /\ result' = Some(Return(None))
                   /\ BusList(bus', type) = Without(BusList(bus, type), f)
                   /\ \A t \in EventTypes \ {type} :
                          BusList(bus', t) = BusList(bus, t)]_vars
    /\ [][\A type \in EventTypes, f \in Subscribers :
            f \notin Range(BusList(bus, type)) /\ f \in Range(BusList(bus', type))
                => Subscribe(type, f)]_vars
    /\ [](pub # <<>> =>
            /\ \A k \in 1..Len(calls) : calls[k].type = pub[1].type
            /\ CalledHandlers = SubSeq(bus[pub[1].type], 1, Len(calls)))

\* C7's case: f1, which the last publish of "connected" called before f2,
\* has since been unsubscribed, and f2 is what the type's list still holds
C7_Witness ==
    /\ pub = <<>>
    /\ result = Some(Return(None))
    /\ calls # <<>>
    /\ calls[1].type = "connected"
    /\ CalledHandlers = <<"f1", "f2">>
    /\ BusList(bus, "connected") = <<"f2">>

\* C8: a publish never goes on after a handler that raised: such a handler
\* is the last one called and the publish is over; when the handler a
\* publish calls next raises, the error is the outcome of the caller's emit,
\* and the handlers called are those before it in the list and itself.
C8_PublishDoesNotIsolate ==
    /\ [](\A k \in 1..Len(calls) :
            calls[k].handler \in RaisingSubscribers
                => k = Len(calls) /\ pub = <<>>)
    /\ [][(/\ pub # <<>>
           /\ pub[1].i < Len(bus[pub[1].type])
           /\ bus[pub[1].type][pub[1].i + 1] \in RaisingSubscribers)
            => /\ pub' = <<>>
               /\ result' = Some(Raise("SubscriberError"))
               /\ [k \in 1..Len(calls') |-> calls'[k].handler]
                      = SubSeq(bus[pub[1].type], 1, pub[1].i + 1)]_vars

\* C8's case: the second of three handlers raised: the first was called, the
\* third was not, and the emit ended with the error
C8_Witness ==
    /\ pub = <<>>
    /\ result = Some(Raise("SubscriberError"))
    /\ BusList(bus, "connected") = <<"f1", "fr", "f2">>
    /\ CalledHandlers = <<"f1", "fr">>


---------------------------------------------------------------------------
(* Properties of the dispatch and of the transport loop, checked under     *)
(* Spec.                                                                   *)

\* whether the matcher of listener l returns a match for the message
MatchedBy(l, message) ==
    LET m == match(l.matcher, message)
    IN  m.kind = "return" /\ ~IsNone(m.value)

\* the first n listeners whose matcher matches the message, by position
MatchingAmong(n, message) ==
    SelectSeq([k \in 1..n |-> k], LAMBDA k : MatchedBy(listeners[k], message))

\* the listeners whose handler the receive has invoked, by position
InvokedListeners == [k \in 1..Len(invoked) |-> invoked[k].listener]

\* C1: a new listener goes to the end of the list, so the list is in
\* registration order; at every point of a receive, the handlers invoked so
\* far are those of the listeners tried so far whose matcher matches the
\* message, in list order, whatever was raised on the way; and a receive
\* ends only when it has tried every listener.
C1_EveryMatchingListenerRuns ==
    /\ [](rcv # <<>> =>
            InvokedListeners = MatchingAmong(rcv[1].i, rcv[1].message))
    /\ [][rcv # <<>> /\ rcv' = <<>>
            => rcv[1].i = Len(listeners) /\ invoked' = invoked]_vars
    /\ [][listeners' # listeners
            => /\ Len(listeners') = Len(listeners) + 1
               /\ SubSeq(listeners', 1, Len(listeners)) = listeners]_vars

\* C1's case: the first listener's handler raised, and the second listener,
\* registered after it and matching too, had its handler invoked after it
C1_Witness ==
    /\ rcv # <<>>
    /\ rcv[1].i = 2
    /\ listeners[1].func = "hr"
    /\ tracebacks = 1
    /\ InvokedListeners = <<1, 2>>

\* C2: no listener's handler is invoked twice in one receive; and within a
\* receive every invocation is of a listener already tried, with a Response
\* that holds the message passed to receive and the match that the
\* listener's matcher returns for it, which is not None.
C2_InvokedOncePerMatch ==
    /\ NoDuplicates(InvokedListeners)
    /\ rcv # <<>> =>
          \A k \in 1..Len(invoked) :
              LET e == invoked[k]
              IN  /\ e.listener \in 1..rcv[1].i
                  /\ e.response.message = rcv[1].message
                  /\ match(listeners[e.listener].matcher, rcv[1].message)
                         = Return(Some(e.response.match))

\* C2's case: of two listeners tried against "hi there", the one that hears
\* "hi" was invoked with the match at 0..2 and the other was not
C2_Witness ==
    /\ rcv # <<>>
    /\ rcv[1].i = 2
    /\ rcv[1].message = ShellMessage(HiThere)
    /\ listeners[1].matcher = DirectMessageMatcher(RegexMatcher(Status), name)
    /\ invoked = <<[listener |-> 2,
                    response |-> Response(ShellMessage(HiThere),
                                          [start |-> 0, end |-> 2])]>>

\* C3: no call of the script ever ends with the error of a handler or of a
\* matcher; a dispatch inside run() ends only by going back to the loop;
\* and run() is never left while a message is being dispatched.
C3_HandlerFailureNotSurfaced ==
    /\ [](/\ result # Some(Raise("HandlerError"))
          /\ result # Some(Raise("MatcherError")))
    /\ [][runpc = "dispatch" => runpc' \in {"dispatch", "loop"}]_vars
    /\ [][runpc = "dispatch" /\ rcv' = <<>> => runpc' = "loop"]_vars

\* C3's case: a handler raised during the first message, the traceback was
\* printed, and run() is back in its loop to read the next line
C3_Witness ==
    /\ runpc = "loop"
    /\ nread = 1
    /\ tracebacks = 1
    /\ invoked # <<>>
    /\ listeners[invoked[1].listener].func = "hr"

\* C9: once run() is entered, "connected" is the first thing it did, so it
\* precedes every dispatch; while run() is in one of its two emits, the
\* publish of that event is in progress; and when run() has returned, it
\* left its loop on 'quit' or on end of input, emitted "disconnected" right
\* after, and that publish called every subscriber of "disconnected".
C9_LifecycleEventsAroundLoop ==
    /\ runpc # "idle" => events # <<>> /\ events[1] = "connected"
    /\ runpc \in {"connected", "disconnected"} =>
          pub # <<>> /\ pub[1].type = runpc
    /\ runpc = "returned" =>
          /\ \E k \in 2..Len(events) :
                /\ events[k] = "disconnected"
                /\ events[k - 1] \in {"quit", "eof"}
                /\ \A j \in 1..k : events[j] = "receive" => 1 < j /\ j < k - 1
                /\ \A j \in (k + 1)..Len(events) : events[j] = "close"
          /\ \A j \in 1..Len(calls) : calls[j].type = "disconnected"
          /\ CalledHandlers = BusList(bus, "disconnected")

\* C9's case: run() has returned after one dispatch and end of input, with a
\* subscriber of "disconnected" called
C9_Witness ==
    /\ runpc = "returned"
    /\ events = <<"connected", "receive", "eof", "disconnected", "close">>
    /\ CalledHandlers = <<"f1">>


---------------------------------------------------------------------------
(* SpecMatch: a test harness builds a Robot with some name, registers      *)
(* listeners with respond and hear, and calls Robot.receive with messages  *)
(* of its own, whose text is absent or any short string over a small       *)
(* alphabet or one of the sample texts.                                    *)

MatchNames == {DefaultName, <<"B">>}

MatchAlphabet == {"B", "b", " ", ":", "s"}

MatchTexts ==
    Strings(MatchAlphabet, MaxTextLen)
        \cup {PybotStatus, UpperPybotStatus, HelloPybot, Status, HiThere}

RespondPatterns == {<<"b">>, Status}

HearPatterns == {<<"s">>}

\* the user of the harness's messages
TestUser == User(None, <<"A", "n", "n">>)

InitMatch == \E botname \in MatchNames : InitWith(botname)

NextMatch ==
    \/ \E p \in RespondPatterns : Respond(p, "h1")
    \/ \E p \in HearPatterns : Hear(p, "h2")
    \/ \E text \in {None} \cup {Some(t) : t \in MatchTexts} :
          Receive(Message(Some(TestUser), "room", text))
    \/ ReceiveStep
    \/ ReceiveReturn

SpecMatch == InitMatch /\ [][NextMatch]_vars

\* the part of text before its first space: its first token
FirstToken(text) ==
    LET stops == {k \in 1..Len(text) : text[k] = " "} \cup {Len(text) + 1}
        n == CHOOSE k \in stops : \A j \in stops : k <= j
    IN  SubSeq(text, 1, n - 1)

\* the first token of text is the bot's name in any case, followed by
\* nothing but ':', '-' and '='
NamesBot(text, botname) ==
    LET t == FirstToken(text)
    IN  \E j \in 0..Len(t) :
            /\ lower(SubSeq(t, 1, j)) = lower(botname)
            /\ \A i \in (j + 1)..Len(t) : t[i] \in {":", "-", "="}

\* pattern p occurs somewhere in text
Found(p, text) ==
    \E k \in 0..Len(text) :
        k + Len(p) <= Len(text) /\ SubSeq(text, k + 1, k + Len(p)) = p

\* the listener at position i was registered with respond(p)
RespondListener(i, p) ==
    /\ listeners[i].matcher.kind = "direct"
    /\ listeners[i].matcher.wrapped = RegexMatcher(p)

---------------------------------------------------------------------------
(* Properties of the matchers, checked under SpecMatch.                    *)

\* the first maximal run of characters of text that are not spaces: its
\* first whitespace-delimited token, empty when the text has none
FirstWord(text) ==
    LET starts == {k \in 1..Len(text) : text[k] # " "}
    IN  IF starts = {} THEN <<>>
        ELSE LET a == CHOOSE k \in starts : \A j \in starts : k <= j
                 stops == {k \in a..Len(text) : text[k] = " "}
                              \cup {Len(text) + 1}
                 b == CHOOSE k \in stops : \A j \in stops : k <= j
             IN  SubSeq(text, a, b - 1)

\* the token as C11 strips it: lowercased, leading spaces and trailing
\* ':', '-', '=' and spaces dropped
StrippedWord(text) ==
    rstrip(lstrip(lower(FirstWord(text)), {" "}), AddressSeparators)

\* C11: the DirectMessageMatcher of a respond listener returns None when
\* the text is absent or its first whitespace-delimited token, stripped,
\* differs from the lowercased name, and otherwise what the wrapped matcher
\* returns for the message.
C11_DirectMatcherByFirstWord ==
    rcv # <<>> =>
        \A i \in 1..Len(listeners) :
            listeners[i].matcher.kind = "direct" =>
                LET m == listeners[i].matcher
                    message == rcv[1].message
                IN  match(m, message) =
                        IF \/ IsNone(message.text)
                           \/ StrippedWord(Val(message.text)) # lower(name)
                        THEN Return(None)
                        ELSE match(m.wrapped, message)


---------------------------------------------------------------------------
(* SpecHear: a test harness registers listeners with hear on a Robot and   *)
(* calls Robot.receive with messages whose text is absent or any short     *)
(* string over the alphabet or one of the sample texts.  The empty pattern *)
(* is the literal that matches at every position of every string.          *)

HearAnyPatterns == {<<>>, <<"s">>, <<"b", " ">>}

NextHear ==
    \/ \E p \in HearAnyPatterns : Hear(p, "h1")
    \/ \E text \in {None} \cup {Some(t) : t \in MatchTexts} :
          Receive(Message(Some(TestUser), "room", text))
    \/ ReceiveStep
    \/ ReceiveReturn

SpecHear == Init /\ [][NextHear]_vars

\* what an unanchored search of p in text returns: the span of the
\* leftmost occurrence of p, or None when p does not occur
SearchResult(p, text) ==
    IF Found(p, text)
    THEN LET at == {k \in 0..Len(text) :
                       /\ k + Len(p) <= Len(text)
                       /\ SubSeq(text, k + 1, k + Len(p)) = p}
             k0 == CHOOSE k \in at : \A j \in at : k <= j
         IN  Some([start |-> k0, end |-> k0 + Len(p)])
    ELSE None

\* C12 as stated: the RegexMatcher of a hear listener returns None for a
\* message without text and the result of the search for every message
\* that has a text.
C12_SearchWheneverTextPresent ==
    rcv # <<>> =>
        \A i \in 1..Len(listeners) :
            listeners[i].matcher.kind = "regex" =>
                LET text == rcv[1].message.text
                IN  match(listeners[i].matcher, rcv[1].message) =
                        Return(IF IsNone(text) THEN None
                               ELSE SearchResult(listeners[i].matcher.pattern,
                                                 Val(text)))

\* C12 as amended: the RegexMatcher returns None for a message whose text
\* is absent or empty and the result of the search for every other
\* message; and when a receive has tried every listener, the handler of a
\* hear(p) listener was invoked, with that match, iff the text is present,
\* not empty and holds p, whether or not it starts with the robot's name.
C12_SearchUnlessTextEmpty ==
    rcv # <<>> =>
        \A i \in 1..Len(listeners) :
            listeners[i].matcher.kind = "regex" =>
                LET text == rcv[1].message.text
                    p == listeners[i].matcher.pattern
                    found == IF IsNone(text) \/ text = Some(<<>>) THEN None
                             ELSE SearchResult(p, Val(text))
                IN  /\ match(listeners[i].matcher, rcv[1].message)
                           = Return(found)
                    /\ rcv[1].i = Len(listeners) =>
                          /\ i \in Range(InvokedListeners)
                                <=> /\ ~IsNone(text)
                                    /\ Val(text) # <<>>
                                    /\ Found(p, Val(text))
                          /\ \A k \in 1..Len(invoked) :
                                invoked[k].listener = i =>
                                    Some(invoked[k].response.match) = found

\* C12's case: hear("") and hear("s") were both invoked for "b s", a text
\* that holds "s" past its start
C12_Witness ==
    /\ rcv # <<>>
    /\ Len(listeners) = 2
    /\ rcv[1].i = 2
    /\ listeners[1].matcher = RegexMatcher(<<>>)
    /\ listeners[2].matcher = RegexMatcher(<<"s">>)
    /\ rcv[1].message.text = Some(<<"b", " ", "s">>)
    /\ InvokedListeners = <<1, 2>>
    /\ invoked[2].response.match = [start |-> 2, end |-> 3]

---------------------------------------------------------------------------
(* SpecAdapter: a caller calls the operations of an adapter of either      *)
(* class, and handlers that use their Response run on received messages.   *)

Ann == User(Some(1), <<"A", "n", "n">>)

Bo == User(Some(2), <<"B", "o">>)

AdapterMessages == {Message(Some(u), "room", Some(Hi)) : u \in {Ann, Bo}}

NextAdapter ==
    \/ \E cls \in AdapterClasses, op \in AdapterOps,
          message \in AdapterMessages, text \in {Hi, Bye} :
          CallAdapter(cls, op, message, text)
    \/ \E f \in ResponseHandlers \cup {"h1"} : Listen(AlwaysMatcher, f)
    \/ \E message \in AdapterMessages : Receive(message)
    \/ ReceiveStep
    \/ ReceiveReturn

SpecAdapter == Init /\ [][NextAdapter]_vars

\* C13: on the base Adapter, send, topic and play do nothing, emote makes
\* the one call send(message, text), and reply makes the one call
\* send(message, "<name of the message's user>: <text>").
C13_BaseAdapterDefaults ==
    (out # <<>> /\ out[1].cls = "Adapter") =>
        LET first == out[1]
            did == Tail(out)
        IN  CASE first.op \in {"send", "topic", "play"} -> did = <<>>
              [] first.op = "emote" ->
                    did = <<AdapterDid("send", "Adapter", first.message,
                                       first.text)>>
              [] first.op = "reply" ->
                    did = <<AdapterDid("send", "Adapter", first.message,
                                Val(first.message.user).name
                                    \o <<":", " ">> \o first.text)>>

\* the Response operation a handler calls
OpOf(func) ==
    CASE func \in ReplyingHandlers -> "reply"
      [] func \in SendingHandlers -> "send"
      [] func \in EmotingHandlers -> "emote"
      [] func \in TopicHandlers -> "topic"

\* C14: when a handler calls an operation of its Response, the robot's
\* adapter gets exactly one call of the operation of the same name, with the
\* message the Response was made for and the handler's text; everything the
\* adapter then does is anchored to that message; the listener list, the bus
\* and the message stay as they were; and a reply of "hi" on the shell
\* adapter prints "<name of the message's user>: hi".
C14_ResponseCallsAdapterOnce ==
    [][(/\ rcv # <<>>
        /\ rcv' # <<>>
        /\ rcv'[1].i = rcv[1].i + 1
        /\ Len(invoked') = Len(invoked) + 1
        /\ listeners[rcv[1].i + 1].func \in ResponseHandlers)
       => LET op == OpOf(listeners[rcv[1].i + 1].func)
              message == rcv[1].message
              did == SubSeq(out', Len(out) + 1, Len(out'))
          IN  /\ SubSeq(out', 1, Len(out)) = out
              /\ did # <<>>
              /\ did[1] = AdapterDid(op, RobotAdapter, message, Hi)
              /\ {k \in 1..Len(did) :
                     did[k].op = op /\ did[k].cls = RobotAdapter} = {1}
              /\ \A k \in 1..Len(did) : did[k].message = message
              /\ invoked'[Len(invoked')].response.message = message
              /\ listeners' = listeners
              /\ bus' = bus
              /\ rcv'[1].message = message
              /\ op = "reply" =>
                    /\ Len(did) = 3
                    /\ did[3].op = "print"
                    /\ did[3].text =
                           Val(message.user).name \o <<":", " ">> \o Hi
    ]_vars

C14_Witness ==
    /\ rcv # <<>>
    /\ rcv[1].i = 2
    /\ Len(listeners) = 2
    /\ listeners[1].func = "htopic"
    /\ listeners[2].func = "hreply"
    /\ rcv[1].message.user = Some(Bo)
    /\ Len(invoked) = 2
    /\ out = <<AdapterDid("topic", "ShellAdapter", rcv[1].message, Hi),
               AdapterDid("reply", "ShellAdapter", rcv[1].message, Hi),
               AdapterDid("send", "ShellAdapter", rcv[1].message,
                          <<"B", "o", ":", " ", "h", "i">>),
               AdapterDid("print", "ShellAdapter", rcv[1].message,
                          <<"B", "o", ":", " ", "h", "i">>)>>

---------------------------------------------------------------------------
(* The registration decorators, checked under Spec.                        *)

\* C15: each of on(type), respond(pattern), hear(pattern) and
\* listen(matcher), applied to a handler f, performs exactly one
\* registration (one listener appended for f, or one subscribe of f to the
\* bus) and returns f itself.
C15_RegistrationReturnsHandler ==
    [][/\ listeners' # listeners =>
             /\ Len(listeners') = Len(listeners) + 1
             /\ SubSeq(listeners', 1, Len(listeners)) = listeners
             /\ result' =
                    Some(Return(Some(listeners'[Len(listeners')].func)))
       /\ \A type \in EventTypes, f \in Subscribers :
             On(type, f) =>
                 /\ bus' = subscribe(bus, type, f)
                 /\ result' = Some(Return(Some(f)))
    ]_vars

---------------------------------------------------------------------------
(* The transport loop and the lifecycle of run().  The safety properties   *)
(* are checked under Spec, termination under SpecFair.                     *)

\* the number of entries of events that are e
Count(e) == Cardinality({k \in 1..Len(events) : events[k] = e})

\* run() is over: it returned, or an exception left it
RunEnded == runpc \in {"returned", "raised"}

\* the loop of run() is left only on 'quit' or end of input, reading either
\* leaves it, 'quit' is never dispatched, and every other line read is
\* dispatched as one message
LoopEndsOnSentinelOnly ==
    /\ (runpc = "dispatch" /\ rcv # <<>>) =>
           /\ rcv[1].message.text # Some(Quit)
           /\ rcv[1].message.user = Some(ShellUser)
    /\ Count("receive") = nread
    /\ Count("quit") + Count("eof") <= 1
    /\ runpc \in {"loop", "dispatch"} => Count("quit") + Count("eof") = 0
    /\ runpc \in {"disconnected", "returned"} =>
           Count("quit") + Count("eof") = 1

\* C16 as stated: the loop ends exactly on 'quit' or end of input, the
\* sentinel is never dispatched, every other line is dispatched as one
\* message, and a run() that was entered eventually returns.
C16_RunEventuallyReturns ==
    /\ [][LoopEndsOnSentinelOnly']_vars
    /\ (runpc # "idle") ~> (runpc = "returned")

\* C16: the loop ends exactly on 'quit' or end of input, the sentinel is
\* never dispatched, every other line is dispatched as one message, and a
\* run() that was entered eventually ends: it returns, or the exception of a
\* subscriber of "connected" or "disconnected" leaves it.
C16_RunEventuallyEnds ==
    /\ [][LoopEndsOnSentinelOnly']_vars
    /\ [][(runpc = "loop" /\ runpc' # "loop") =>
             \/ /\ runpc' = "dispatch"
                /\ events' = Append(events, "receive")
                /\ nread' = nread + 1
                /\ rcv' # <<>>
                /\ rcv'[1].i = 0
             \/ /\ runpc' = "disconnected"
                /\ events'[Len(events') - 1] \in {"quit", "eof"}
                /\ UNCHANGED <<nread, rcv>>]_vars
    /\ (runpc # "idle") ~> RunEnded
    /\ [][runpc' = "raised" =>
             /\ result' = Some(Raise("SubscriberError"))
             /\ calls' # <<>>
             /\ calls'[Len(calls')].handler \in RaisingSubscribers
             /\ calls'[Len(calls')].type \in {"connected", "disconnected"}
       ]_vars

\* C16's case: run() returned after two lines and end of input
C16_Witness ==
    /\ runpc = "returned"
    /\ nread = 2
    /\ events = <<"connected", "receive", "receive", "eof", "disconnected",
                  "close">>

\* events so far is a beginning of: "connected", any number of dispatches,
\* the end of the loop, "disconnected", close
EventsInOrder ==
    \A k \in 1..Len(events) :
        /\ events[k] = "connected" <=> k = 1
        /\ events[k] = "receive" =>
               \A j \in 1..k : events[j] \in {"connected", "receive"}
        /\ events[k] = "disconnected" =>
               /\ events[k - 1] \in {"quit", "eof"}
               /\ \A j \in 1..(k - 2) : events[j] \in {"connected", "receive"}
        /\ events[k] = "close" =>
               /\ events[k - 1] = "disconnected"
               /\ k = Len(events)

\* C19: within one run(), "connected" is published once, then come the
\* dispatches, then "disconnected" is published once, then Robot.shutdown
\* calls close() once, in this order: at every moment what has happened is a
\* beginning of that sequence, a run() that returned has done all of it, and
\* nothing is dispatched or published after "disconnected" and close().
C19_LifecycleOrder ==
    [][/\ EventsInOrder'
       /\ runpc' # "idle" => Count("connected")' = 1
       /\ runpc' = "returned" =>
              /\ Count("disconnected")' = 1
              /\ Count("close")' = 1
              /\ rcv' = <<>>
              /\ pub' = <<>>
       /\ runpc' = "disconnected" =>
              (rcv' = <<>> /\ Count("disconnected")' = 1 /\ Count("close")' = 0)
       /\ rcv' # <<>> => Count("disconnected")' = 0
       /\ events' # events =>
              /\ Len(events') > Len(events)
              /\ SubSeq(events', 1, Len(events)) = events
       /\ runpc # "returned"
    ]_vars

\* C19's case: a run() of a robot with two listeners that dispatched one
\* line, left the loop on 'quit', published "disconnected" to its subscriber
\* and closed the adapter
C19_Witness ==
    /\ runpc = "returned"
    /\ events = <<"connected", "receive", "quit", "disconnected", "close">>
    /\ Len(calls) = 1
    /\ calls[1].type = "disconnected"
    /\ Len(listeners) = 2

\* C20: when a subscriber of "connected" raises, the exception leaves run()
\* at once: run() is over, no input was read, no message was dispatched,
\* "disconnected" was not published and close() was not called, and nothing
\* of it happens afterwards.
C20_ConnectedFailureAbortsRun ==
    [][/\ (/\ runpc = "connected"
           /\ calls' # calls
           /\ calls'[Len(calls')].handler \in RaisingSubscribers)
          => /\ runpc' = "raised"
             /\ pub' = <<>>
             /\ result' = Some(Raise("SubscriberError"))
             /\ events' = <<"connected">>
             /\ nread' = 0
             /\ rcv' = <<>>
             /\ invoked' = invoked
             /\ \A j \in 1..Len(calls') : calls'[j].type = "connected"
       /\ runpc # "raised"
    ]_vars

\* C20's case: the second subscriber of "connected" raised
C20_Witness ==
    /\ runpc = "raised"
    /\ events = <<"connected">>
    /\ Len(calls) = 2
    /\ calls[2].handler = "fr"
    /\ calls[2].type = "connected"
    /\ nread = 0
    /\ Len(listeners) = 1

---------------------------------------------------------------------------
(* SpecReentrant: callbacks that call back into the object that is calling *)
(* them: a subscriber that unsubscribes itself while its event is being    *)
(* published, and a handler that registers a listener while a message is   *)
(* being received.                                                         *)

NextReentrant ==
    \/ \E f \in QuietSubscribers \cup SelfUnsubscribers :
          Subscribe("connected", f)
    \/ Emit("connected", None)
    \/ PublishStep
    \/ PublishReturn
    \/ \E f \in {"h1"} \cup AddingHandlers : Hear(Hi, f)
    \/ \E text \in {Hi, Bye} :
          Receive(Message(Some(TestUser), "room", Some(text)))
    \/ ReceiveStep
    \/ ReceiveReturn

SpecReentrant == Init /\ [][NextReentrant]_vars

\* C17: when a subscriber unsubscribes itself during a publish, every other
\* handler that was subscribed when the publish began has been called
\* exactly once when the publish returns.
C17_SelfUnsubscribeSkipsNoOne ==
    (pub # <<>> /\ pub[1].i >= Len(BusList(bus, pub[1].type))) =>
        \A h \in Range(BusList(bus, pub[1].type)) \ SelfUnsubscribers :
            TimesCalled(h) = 1

\* during a receive: the listeners tried so far that match its message
TriedMatching == MatchingAmong(rcv[1].i, rcv[1].message)

\* C18: when a handler registers a listener during receive(M), the new
\* listener goes to the end of the list the receive is going through, and
\* the same receive tries it against M: the receive ends only when it has
\* tried every listener of the list as it then is, and at every point the
\* handlers invoked are those of the listeners tried so far that match M.
C18_NewListenerTriedInSameReceive ==
    [][/\ (/\ rcv # <<>>
           /\ rcv' # <<>>
           /\ invoked' # invoked
           /\ listeners[rcv[1].i + 1].func \in AddingHandlers)
          => /\ listeners' = Append(listeners, Listener(RegexMatcher(Hi), "h2"))
             /\ rcv'[1].i < Len(listeners')
       /\ listeners' # listeners =>
              SubSeq(listeners', 1, Len(listeners)) = listeners
       /\ (rcv # <<>> /\ rcv' = <<>>) => rcv[1].i = Len(listeners)
       /\ rcv' # <<>> => InvokedListeners' = TriedMatching'
    ]_vars

\* C18's case: the first listener's handler registered the second listener
\* during this receive, and the second listener's handler has been invoked
C18_Witness ==
    /\ rcv # <<>>
    /\ rcv[1].i = 2
    /\ rcv[1].message.text = Some(Hi)
    /\ listeners = <<Listener(RegexMatcher(Hi), "hadd"),
                     Listener(RegexMatcher(Hi), "h2")>>
    /\ InvokedListeners = <<1, 2>>

===========================================================================
